---------------------------- MODULE Spec2Model ----------------------------
(***************************************************************************)
(* Model of rpc/namespaces/utils/api.go: API.ConvertAddress, the address   *)
(* converter between the hex and the bech32 text form of an account        *)
(* address.                                                                *)
(*                                                                         *)
(* A Go string is modelled as the sequence of its bytes (ASCII codes), a   *)
(* byte slice as a sequence of numbers in 0..255.  The library calls of    *)
(* ConvertAddress (go-ethereum common, cosmos-sdk types and bech32,        *)
(* strings) are modelled by what they compute, down to the bech32 checksum *)
(* and the Keccak-256 hash behind the EIP-55 letter case of                *)
(* common.Address.String().                                                *)
(***************************************************************************)
EXTENDS Integers, Sequences, FiniteSets, TLC

(***************************************************************************)
(* Bounds of the model.                                                    *)
(***************************************************************************)
\* Number of 20-byte payloads the inputs are built from.
NumPayloads == 2
\* Longest chain of conversions one caller makes, feeding a result back in.
MaxChain == 2
\* Number of concurrent callers in SpecConc.
NumCallers == 2

(***************************************************************************)
(* Evaluation helpers.  TLC keeps [i \in 1..n |-> e] unevaluated and       *)
(* recomputes e at every application; Eager turns it into a tuple once.    *)
(* The({body : v \in {e}}) stands for "LET v == e IN body" with e          *)
(* evaluated once, before body.                                            *)
(***************************************************************************)
Eager(s) == s \o <<>>

The(S) == CHOOSE v \in S : TRUE

Pow2 == <<1, 2, 4, 8, 16, 32, 64, 128, 256>>

RECURSIVE xorBits(_, _)
xorBits(a, b) ==
    IF a = 0 THEN b
    ELSE IF b = 0 THEN a
    ELSE (((a % 2) + (b % 2)) % 2) + (2 * xorBits(a \div 2, b \div 2))

\* a ^ b on bytes, tabulated.
XorTable == Eager([a \in 1..256 |-> Eager([b \in 1..256 |-> xorBits(a - 1, b - 1)])])

Xor(a, b) == XorTable[a + 1][b + 1]
And(a, b) == (a + b - Xor(a, b)) \div 2
Not(a) == 255 - a

\* a ^ b on 32-bit words (non-negative, below 2^31 here).
Xor32(a, b) ==
    Xor(a % 256, b % 256)
    + (256 * Xor((a \div 256) % 256, (b \div 256) % 256))
    + (65536 * Xor((a \div 65536) % 256, (b \div 65536) % 256))
    + (16777216 * Xor(a \div 16777216, b \div 16777216))

(***************************************************************************)
(* package strings                                                         *)
(***************************************************************************)
HasPrefix(s, pre) == Len(s) >= Len(pre) /\ SubSeq(s, 1, Len(pre)) = pre

lowerByte(c) == IF c >= 65 /\ c <= 90 THEN c + 32 ELSE c
upperByte(c) == IF c >= 97 /\ c <= 122 THEN c - 32 ELSE c
ToLower(s) == Eager([i \in 1..Len(s) |-> lowerByte(s[i])])
ToUpper(s) == Eager([i \in 1..Len(s) |-> upperByte(s[i])])

\* Index (from 0) of the last c in s, -1 when there is none.
LastIndexByte(s, c) ==
    IF \E i \in 1..Len(s) : s[i] = c
    THEN (CHOOSE i \in 1..Len(s) :
              s[i] = c /\ \A j \in (i + 1)..Len(s) : s[j] # c) - 1
    ELSE -1

\* unicode.IsSpace on the UTF-8 text of s at place i: the number of bytes of
\* the white space rune encoded there, 0 when none is.  The runes are
\* \t \n \v \f \r and space, U+0085, U+00A0, U+1680, U+2000 to U+200A,
\* U+2028, U+2029, U+202F, U+205F and U+3000.
spaceRuneLen(s, i) ==
    IF s[i] \in {9, 10, 11, 12, 13, 32} THEN 1
    ELSE IF i + 1 <= Len(s) /\ s[i] = 194 /\ s[i + 1] \in {133, 160} THEN 2
    ELSE IF /\ i + 2 <= Len(s)
            /\ \/ s[i] = 225 /\ s[i + 1] = 154 /\ s[i + 2] = 128
               \/ /\ s[i] = 226 /\ s[i + 1] = 128
                  /\ s[i + 2] \in (128..138) \cup {168, 169, 175}
               \/ s[i] = 226 /\ s[i + 1] = 129 /\ s[i + 2] = 159
               \/ s[i] = 227 /\ s[i + 1] = 128 /\ s[i + 2] = 128
    THEN 3
    ELSE 0

\* Whether s from place i on is white space runes only.
RECURSIVE blankFrom(_, _)
blankFrom(s, i) ==
    \/ i > Len(s)
    \/ spaceRuneLen(s, i) # 0 /\ blankFrom(s, i + spaceRuneLen(s, i))

\* len(strings.TrimSpace(s)) == 0
IsBlank(s) == blankFrom(s, 1)

(***************************************************************************)
(* golang.org/x/crypto/sha3: NewLegacyKeccak256.  The state is 25 lanes of *)
(* 64 bits, lane (x, y) at index 1 + x + 5y, each lane 8 bytes, least      *)
(* significant first.                                                      *)
(***************************************************************************)
XorLane(a, b) == Eager([i \in 1..8 |-> Xor(a[i], b[i])])

\* a ^ (^b & c)
ChiLane(a, b, c) == Eager([i \in 1..8 |-> Xor(a[i], And(Not(b[i]), c[i]))])

\* bits.RotateLeft64(a, n): by n \div 8 whole bytes, then by n % 8 bits.
RotL(a, n) ==
    Eager([i \in 1..8 |->
        ((a[((i - 1 - (n \div 8) + 8) % 8) + 1] * Pow2[(n % 8) + 1]) % 256)
        + (a[((i - 2 - (n \div 8) + 16) % 8) + 1] \div Pow2[9 - (n % 8)])])

\* The round constants.
rc ==
    << <<1, 0, 0, 0, 0, 0, 0, 0>>,
       <<130, 128, 0, 0, 0, 0, 0, 0>>,
       <<138, 128, 0, 0, 0, 0, 0, 128>>,
       <<0, 128, 0, 128, 0, 0, 0, 128>>,
       <<139, 128, 0, 0, 0, 0, 0, 0>>,
       <<1, 0, 0, 128, 0, 0, 0, 0>>,
       <<129, 128, 0, 128, 0, 0, 0, 128>>,
       <<9, 128, 0, 0, 0, 0, 0, 128>>,
       <<138, 0, 0, 0, 0, 0, 0, 0>>,
       <<136, 0, 0, 0, 0, 0, 0, 0>>,
       <<9, 128, 0, 128, 0, 0, 0, 0>>,
       <<10, 0, 0, 128, 0, 0, 0, 0>>,
       <<139, 128, 0, 128, 0, 0, 0, 0>>,
       <<139, 0, 0, 0, 0, 0, 0, 128>>,
       <<137, 128, 0, 0, 0, 0, 0, 128>>,
       <<3, 128, 0, 0, 0, 0, 0, 128>>,
       <<2, 128, 0, 0, 0, 0, 0, 128>>,
       <<128, 0, 0, 0, 0, 0, 0, 128>>,
       <<10, 128, 0, 0, 0, 0, 0, 0>>,
       <<10, 0, 0, 128, 0, 0, 0, 128>>,
       <<129, 128, 0, 128, 0, 0, 0, 128>>,
       <<128, 128, 0, 0, 0, 0, 0, 128>>,
       <<1, 0, 0, 128, 0, 0, 0, 0>>,
       <<8, 128, 0, 128, 0, 0, 0, 128>> >>

\* The rotation offsets of the rho step, by lane index.
rotc ==
    <<0, 1, 62, 28, 27, 36, 44, 6, 55, 20, 3, 10, 43, 25, 39, 41, 45, 15, 21, 8,
      18, 2, 61, 56, 14>>

Lane(x, y) == 1 + (x % 5) + (5 * (y % 5))

\* theta: the parity of every column ...
thetaC(A) ==
    Eager([k \in 1..5 |-> Eager([i \in 1..8 |->
        Xor(A[k][i], Xor(A[k + 5][i], Xor(A[k + 10][i],
            Xor(A[k + 15][i], A[k + 20][i]))))])])

\* ... D[x] = C[x - 1] ^ rotl(C[x + 1], 1) ...
thetaD(C) ==
    Eager([k \in 1..5 |-> XorLane(C[((k + 3) % 5) + 1], RotL(C[(k % 5) + 1], 1))])

\* ... xored into every lane of the column.
thetaXor(A, D) == Eager([k \in 1..25 |-> XorLane(A[k], D[((k - 1) % 5) + 1])])

\* rho and pi: B[y, 2x + 3y] = rotl(T[x, y], rotc[x, y]); lane (X, Y) of B
\* comes from lane ((X + 3Y) % 5, X) of T.
rhoPi(T) ==
    Eager([k \in 1..25 |->
        RotL(T[Lane(((k - 1) % 5) + (3 * ((k - 1) \div 5)), (k - 1) % 5)],
             rotc[Lane(((k - 1) % 5) + (3 * ((k - 1) \div 5)), (k - 1) % 5)])])

\* chi: B[x, y] ^ (^B[x + 1, y] & B[x + 2, y])
chi(B) ==
    Eager([k \in 1..25 |->
        ChiLane(B[k], B[Lane(((k - 1) % 5) + 1, (k - 1) \div 5)],
                B[Lane(((k - 1) % 5) + 2, (k - 1) \div 5)])])

\* iota: the round constant xored into lane (0, 0).
iota(E, round) == [E EXCEPT ![1] = XorLane(E[1], rc[round])]

\* One round of Keccak-f[1600].
keccakRound(A, round) ==
    The({iota(E, round) :
         E \in {chi(B) :
         B \in {rhoPi(T) :
         T \in {thetaXor(A, D) :
         D \in {thetaD(C) :
         C \in {thetaC(A)}}}}}})

\* Rounds round..24.
RECURSIVE keccakRounds(_, _)
keccakRounds(A, round) ==
    IF round > 24 THEN A
    ELSE The({keccakRounds(S, round + 1) : S \in {keccakRound(A, round)}})

keccakF1600(A) == keccakRounds(A, 1)

\* The rate of Keccak-256 in bytes.
rate == 136

\* A message shorter than the rate, padded to one block of the 200-byte
\* state: msg, the legacy domain byte 0x01, zeros, and 0x80 on the last byte
\* of the rate.
padBlock(msg) ==
    Eager([i \in 1..200 |->
        IF i <= Len(msg) THEN msg[i]
        ELSE IF i > rate THEN 0
        ELSE (IF i = Len(msg) + 1 THEN 1 ELSE 0) + (IF i = rate THEN 128 ELSE 0)])

\* The padded block as the 25 lanes it is xored into the zero state.
absorb(blk) == Eager([k \in 1..25 |-> SubSeq(blk, (8 * (k - 1)) + 1, 8 * k)])

\* sha3.NewLegacyKeccak256(); Write(msg); Sum(nil), for Len(msg) < rate.
Keccak256(msg) ==
    The({A[1] \o A[2] \o A[3] \o A[4] :
         A \in {keccakF1600(A0) :
         A0 \in {absorb(blk) :
         blk \in {padBlock(msg)}}}})

(***************************************************************************)
(* github.com/ethereum/go-ethereum/common                                  *)
(***************************************************************************)
AddressLength == 20

\* len(str) >= 2 && str[0] == '0' && (str[1] == 'x' || str[1] == 'X')
has0xPrefix(str) == Len(str) >= 2 /\ str[1] = 48 /\ str[2] \in {120, 88}

isHexCharacter(c) ==
    \/ c >= 48 /\ c <= 57
    \/ c >= 97 /\ c <= 102
    \/ c >= 65 /\ c <= 70

isHex(str) ==
    /\ Len(str) % 2 = 0
    /\ \A i \in 1..Len(str) : isHexCharacter(str[i])

strip0x(s) == IF has0xPrefix(s) THEN SubSeq(s, 3, Len(s)) ELSE s

IsHexAddress(s) ==
    \E t \in {strip0x(s)} : Len(t) = 2 * AddressLength /\ isHex(t)

fromHexChar(c) ==
    IF c >= 48 /\ c <= 57 THEN c - 48
    ELSE IF c >= 97 /\ c <= 102 THEN c - 87
    ELSE c - 55

\* Whether the k-th pair of characters of str is two hex digits.
hexPair(str, k) == isHexCharacter(str[(2 * k) - 1]) /\ isHexCharacter(str[2 * k])

\* The number of leading pairs of str that are hex digits.
hexPairs(str) ==
    IF \A k \in 1..(Len(str) \div 2) : hexPair(str, k) THEN Len(str) \div 2
    ELSE (CHOOSE k \in 1..(Len(str) \div 2) :
              ~hexPair(str, k) /\ \A j \in 1..(k - 1) : hexPair(str, j)) - 1

\* hex.DecodeString with the error dropped: the bytes decoded before the
\* first character that is no hex digit.
Hex2Bytes(str) ==
    Eager([k \in 1..hexPairs(str) |->
        (16 * fromHexChar(str[(2 * k) - 1])) + fromHexChar(str[2 * k])])

FromHex(s) ==
    The({Hex2Bytes(u) :
         u \in {IF Len(t) % 2 = 1 THEN <<48>> \o t ELSE t : t \in {strip0x(s)}}})

\* SetBytes that keeps the first 20 bytes of b and pads on the right.
BytesToAddressLeft(b) ==
    Eager([i \in 1..AddressLength |-> IF i <= Len(b) THEN b[i] ELSE 0])

\* Address.SetBytes: b cropped from the left to its last 20 bytes, or
\* padded with zeros on the left.
BytesToAddress(b) ==
    The({Eager([i \in 1..AddressLength |->
             IF i <= AddressLength - Len(c) THEN 0
             ELSE c[i - (AddressLength - Len(c))]]) :
         c \in {IF Len(b) > AddressLength
                THEN SubSeq(b, Len(b) - AddressLength + 1, Len(b))
                ELSE b}})

HexToAddress(s) == BytesToAddress(FromHex(s))

hexDigit(n) == IF n < 10 THEN 48 + n ELSE 87 + n

\* Address.hex: "0x" and the 40 lowercase digits of a.
hex(a) ==
    The({<<48, 120>> \o
         Eager([i \in 1..(2 * Len(b)) |->
             IF i % 2 = 1 THEN hexDigit(b[(i + 1) \div 2] \div 16)
             ELSE hexDigit(b[i \div 2] % 16)]) : b \in {a}})

\* Address.checksumHex: the EIP-55 form.  A letter digit is upper-cased
\* when the matching nibble of Keccak256 of the 40 lowercase digits is
\* above 7.
hashNibble(hash, j) ==
    IF j % 2 = 1 THEN hash[((j - 3) \div 2) + 1] \div 16
    ELSE hash[((j - 3) \div 2) + 1] % 16

checksumHex(a) ==
    The({Eager([j \in 1..Len(buf) |->
             IF j > 2 /\ buf[j] > 57 /\ hashNibble(hash, j) > 7 THEN buf[j] - 32
             ELSE buf[j]]) :
         <<buf, hash>> \in
             {<<b, Keccak256(SubSeq(b, 3, Len(b)))>> : b \in {hex(a)}}})

\* Address.String() is Address.Hex().
AddressString(a) == checksumHex(a)

(***************************************************************************)
(* github.com/cosmos/btcutil/bech32                                        *)
(***************************************************************************)
\* "qpzry9x8gf2tvdw0s3jn54khce6mua7l"
charset ==
    <<113, 112, 122, 114, 121, 57, 120, 56, 103, 102, 50, 116, 118, 100, 119, 48,
      115, 51, 106, 110, 53, 52, 107, 104, 99, 101, 54, 109, 117, 97, 55, 108>>

\* 0x3b6a57b2, 0x26508e6d, 0x1ea119fa, 0x3d4233dd, 0x2a1462b3
gen == <<996825010, 642813549, 513874426, 1027748829, 705979059>>

\* strings.IndexByte(charset, c), -1 when c is not in the charset.
charsetIndex(c) ==
    IF \E k \in 1..Len(charset) : charset[k] = c
    THEN (CHOOSE k \in 1..Len(charset) : charset[k] = c) - 1
    ELSE -1

\* toBytes: every character's index in the charset; ok is false when a
\* character is not part of the charset.
toBytes(chars) ==
    The({IF \E i \in 1..Len(idx) : idx[i] < 0
         THEN [ok |-> FALSE, bytes |-> <<>>]
         ELSE [ok |-> TRUE, bytes |-> idx] :
         idx \in {Eager([i \in 1..Len(chars) |-> charsetIndex(chars[i])])}})

\* toChars, for data below 32.
toChars(data) == Eager([i \in 1..Len(data) |-> charset[data[i] + 1]])

\* The inner loop of bech32Polymod: chk ^= gen[i] for every set bit i of b.
RECURSIVE polymodGen(_, _, _)
polymodGen(chk, b, i) ==
    IF i > 5 THEN chk
    ELSE The({polymodGen(c, b, i + 1) :
              c \in {IF (b \div Pow2[i]) % 2 = 1 THEN Xor32(chk, gen[i]) ELSE chk}})

\* The body of the loop of bech32Polymod for one value v:
\* b := chk >> 25; chk = (chk & 0x1ffffff) << 5 ^ v; then the inner loop.
polymodStep(chk, v) ==
    polymodGen(Xor32((chk % 33554432) * 32, v), chk \div 33554432, 1)

\* The loop over values[lo..hi], in order, split in halves to keep the
\* evaluation shallow.
RECURSIVE polymodRange(_, _, _, _)
polymodRange(values, lo, hi, chk) ==
    IF lo > hi THEN chk
    ELSE IF lo = hi THEN polymodStep(chk, values[lo])
    ELSE The({polymodRange(values, ((lo + hi) \div 2) + 1, hi, left) :
              left \in {polymodRange(values, lo, (lo + hi) \div 2, chk)}})

bech32Polymod(values) ==
    The({polymodRange(v, 1, Len(v), 1) : v \in {values}})

bech32HrpExpand(hrp) ==
    Eager([i \in 1..Len(hrp) |-> hrp[i] \div 32]) \o <<0>>
    \o Eager([i \in 1..Len(hrp) |-> hrp[i] % 32])

bech32Checksum(hrp, data) ==
    The({<<(polymod \div 33554432) % 32, (polymod \div 1048576) % 32,
           (polymod \div 32768) % 32, (polymod \div 1024) % 32,
           (polymod \div 32) % 32, polymod % 32>> :
         polymod \in {Xor32(bech32Polymod(bech32HrpExpand(hrp) \o data
                                              \o <<0, 0, 0, 0, 0, 0>>), 1)}})

bech32VerifyChecksum(hrp, data) ==
    bech32Polymod(bech32HrpExpand(hrp) \o data) = 1

\* One turn of the inner loop of ConvertBits: toExtract bits of b move into
\* nextByte; a full group is appended to out.  st is
\* [out, nextByte, filledBits, b, remFromBits].
convertTurn(st, toExtract, toBits) ==
    The({IF st.filledBits + toExtract = toBits
         THEN [out |-> Append(st.out, nextByte), nextByte |-> 0, filledBits |-> 0,
               b |-> (st.b * Pow2[toExtract + 1]) % 256,
               remFromBits |-> st.remFromBits - toExtract]
         ELSE [out |-> st.out, nextByte |-> nextByte,
               filledBits |-> st.filledBits + toExtract,
               b |-> (st.b * Pow2[toExtract + 1]) % 256,
               remFromBits |-> st.remFromBits - toExtract] :
         nextByte \in {((st.nextByte * Pow2[toExtract + 1]) % 256)
                       + (st.b \div Pow2[(8 - toExtract) + 1])}})

min(a, b) == IF a < b THEN a ELSE b

\* for remFromBits > 0 { ... }
RECURSIVE convertByte(_, _)
convertByte(st, toBits) ==
    IF st.remFromBits = 0 THEN st
    ELSE The({convertByte(st2, toBits) :
              st2 \in {convertTurn(st, min(toBits - st.filledBits, st.remFromBits),
                                   toBits)}})

\* The loop of ConvertBits over data[lo..hi], in order, split in halves to
\* keep the evaluation shallow.
RECURSIVE convertRange(_, _, _, _, _, _)
convertRange(data, lo, hi, st, fromBits, toBits) ==
    IF lo > hi THEN st
    ELSE IF lo = hi
    THEN convertByte([st EXCEPT !.b = (data[lo] * Pow2[(8 - fromBits) + 1]) % 256,
                                !.remFromBits = fromBits], toBits)
    ELSE The({convertRange(data, ((lo + hi) \div 2) + 1, hi, left, fromBits, toBits) :
              left \in {convertRange(data, lo, (lo + hi) \div 2, st, fromBits,
                                     toBits)}})

\* ConvertBits: data regrouped from fromBits-wide to toBits-wide groups.
ConvertBits(data, fromBits, toBits, pad) ==
    The({IF pad /\ st.filledBits > 0
         THEN [bytes |-> Append(st.out,
                             (st.nextByte * Pow2[(toBits - st.filledBits) + 1]) % 256),
               err |-> "nil"]
         ELSE IF st.filledBits > 0 /\ (st.filledBits > 4 \/ st.nextByte # 0)
         THEN [bytes |-> <<>>, err |-> "invalid incomplete group"]
         ELSE [bytes |-> st.out, err |-> "nil"] :
         st \in {convertRange(d, 1, Len(d),
                     [out |-> <<>>, nextByte |-> 0, filledBits |-> 0, b |-> 0,
                      remFromBits |-> 0], fromBits, toBits) : d \in {data}}})

\* Encode: hrp, the separator '1', the data and its checksum in the charset.
Encode(hrp, data) ==
    hrp \o <<49>> \o toChars(data \o bech32Checksum(hrp, data))

\* The part of Decode after the checks of the whole string: lower is the
\* string in lowercase and one the index (from 0) of its last '1'.
decodeParts(lower, one) ==
    The({IF ~decoded.ok
         THEN [hrp |-> <<>>, data |-> <<>>, err |-> "failed converting data to bytes"]
         ELSE IF ~bech32VerifyChecksum(SubSeq(lower, 1, one), decoded.bytes)
         THEN [hrp |-> <<>>, data |-> <<>>, err |-> "checksum failed"]
         ELSE [hrp |-> SubSeq(lower, 1, one),
               data |-> SubSeq(decoded.bytes, 1, Len(decoded.bytes) - 6),
               err |-> "nil"] :
         decoded \in {toBytes(SubSeq(lower, one + 2, Len(lower)))}})

\* Decode(bech, limit)
Decode(bech, limit) ==
    IF Len(bech) < 8 \/ Len(bech) > limit
    THEN [hrp |-> <<>>, data |-> <<>>, err |-> "invalid bech32 string length"]
    ELSE IF \E i \in 1..Len(bech) : bech[i] < 33 \/ bech[i] > 126
    THEN [hrp |-> <<>>, data |-> <<>>, err |-> "invalid character in string"]
    ELSE IF bech # ToLower(bech) /\ bech # ToUpper(bech)
    THEN [hrp |-> <<>>, data |-> <<>>,
          err |-> "string not all lowercase or all uppercase"]
    ELSE The({IF one < 1 \/ one + 7 > Len(lower)
              THEN [hrp |-> <<>>, data |-> <<>>, err |-> "invalid index of 1"]
              ELSE decodeParts(lower, one) :
              <<lower, one>> \in
                  {<<l, LastIndexByte(l, 49)>> : l \in {ToLower(bech)}}})

(***************************************************************************)
(* github.com/cosmos/cosmos-sdk/types/bech32 and types                     *)
(***************************************************************************)
\* The limit DecodeAndConvert passes to Decode.
DecodeLimit == 1023

\* address.MaxAddrLen
MaxAddrLen == 255

ConvertAndEncode(hrp, data) ==
    The({Encode(hrp, converted.bytes) :
         converted \in {ConvertBits(data, 8, 5, TRUE)}})

\* The second half of DecodeAndConvert, on what Decode returned.
convertDecoded(d) ==
    The({IF converted.err # "nil"
         THEN [hrp |-> <<>>, bz |-> <<>>, err |-> converted.err]
         ELSE [hrp |-> d.hrp, bz |-> converted.bytes, err |-> "nil"] :
         converted \in {ConvertBits(d.data, 5, 8, FALSE)}})

DecodeAndConvert(bech) ==
    The({IF d.err # "nil" THEN [hrp |-> <<>>, bz |-> <<>>, err |-> d.err]
         ELSE convertDecoded(d) :
         d \in {Decode(bech, DecodeLimit)}})

GetFromBech32(bech32str, pre) ==
    IF Len(bech32str) = 0
    THEN [bz |-> <<>>,
          err |-> "decoding Bech32 address failed: must provide a non empty address"]
    ELSE The({IF d.err # "nil" THEN [bz |-> <<>>, err |-> d.err]
              ELSE IF d.hrp # pre THEN [bz |-> <<>>, err |-> "invalid Bech32 prefix"]
              ELSE [bz |-> d.bz, err |-> "nil"] :
              d \in {DecodeAndConvert(bech32str)}})

VerifyAddressFormat(bz) ==
    IF Len(bz) = 0 THEN "addresses cannot be empty"
    ELSE IF Len(bz) > MaxAddrLen THEN "address max length exceeded"
    ELSE "nil"

\* sdk.AccAddressFromBech32 under the account prefix pre: the address bytes
\* and the error; the bytes are empty whenever there is an error.
AccAddressFromBech32(pre, address) ==
    IF IsBlank(address)
    THEN [bz |-> <<>>, err |-> "empty address string is not allowed"]
    ELSE The({IF got.err # "nil" THEN [bz |-> <<>>, err |-> got.err]
              ELSE IF VerifyAddressFormat(got.bz) # "nil"
              THEN [bz |-> <<>>, err |-> VerifyAddressFormat(got.bz)]
              ELSE [bz |-> got.bz, err |-> "nil"] :
              got \in {GetFromBech32(address, pre)}})

\* accAddrCache, _ = simplelru.NewLRU(60000, nil): the capacity of the
\* process-wide cache of account address strings.
accAddrCacheSize == 60000

\* A cache is the list of its entries [key, value], the most recently used
\* first.  The place of key in cache, 0 when it has no entry.
cacheIndex(cache, key) ==
    IF \E i \in 1..Len(cache) : cache[i].key = key
    THEN CHOOSE i \in 1..Len(cache) : cache[i].key = key
    ELSE 0

\* list.MoveToFront
cacheMoveToFront(cache, i) ==
    <<cache[i]>> \o SubSeq(cache, 1, i - 1) \o SubSeq(cache, i + 1, Len(cache))

\* Get that takes the most recently used entry for the entry of key.
cacheGetFront(cache, key) ==
    IF cache = <<>>
    THEN [ok |-> FALSE, value |-> <<>>, cache |-> cache]
    ELSE [ok |-> TRUE, value |-> cache[1].value, cache |-> cache]

\* simplelru.LRU.Get: whether key has an entry and its value; the entry found
\* becomes the most recently used.
cacheGet(cache, key) ==
    The({IF i = 0
         THEN [ok |-> FALSE, value |-> <<>>, cache |-> cache]
         ELSE [ok |-> TRUE, value |-> cache[i].value,
               cache |-> cacheMoveToFront(cache, i)] :
         i \in {cacheIndex(cache, key)}})

\* simplelru.LRU.Add: the entry of key is updated and moved to the front, or
\* a new entry is put in front and the oldest is evicted beyond the capacity.
cacheAdd(cache, key, value) ==
    The({IF i # 0
         THEN cacheMoveToFront([cache EXCEPT ![i].value = value], i)
         ELSE The({IF Len(c) > accAddrCacheSize THEN SubSeq(c, 1, Len(c) - 1) ELSE c :
                   c \in {<<[key |-> key, value |-> value]>> \o cache}}) :
         i \in {cacheIndex(cache, key)}})

\* AccAddress.String(): "" for the empty address; otherwise, holding
\* accAddrMu, the string cached for the bytes of aa or, when there is none,
\* the bech32 encoding of aa under the prefix, which is added to the cache.
\* The string returned and the cache left behind.
AccAddressString(pre, aa, cache) ==
    IF Len(aa) = 0 THEN [str |-> <<>>, cache |-> cache]
    ELSE The({IF got.ok
              THEN [str |-> got.value, cache |-> got.cache]
              ELSE The({[str |-> enc, cache |-> cacheAdd(cache, aa, enc)] :
                        enc \in {ConvertAndEncode(pre, aa)}}) :
              got \in {cacheGet(cache, aa)}})

(***************************************************************************)
(* rpc/namespaces/utils/api.go                                             *)
(***************************************************************************)
\* types.Bech32PrefixAccAddr: "secret"
Bech32PrefixAccAddr == <<115, 101, 99, 114, 101, 116>>

\* The account prefixes a network may be configured with: the one of this
\* network and "0x", the leading characters of a hex address.
Prefixes == {Bech32PrefixAccAddr, <<48, 120>>}

\* fmt.Errorf("expected a valid hex or bech32 address")
ErrInvalidFormat == "expected a valid hex or bech32 address"

\* The switch with its first two cases in the other order.
ClassifyPrefixFirst(pre, address) ==
    IF HasPrefix(address, pre) THEN "bech32"
    ELSE IF IsHexAddress(address) THEN "hex"
    ELSE "default"

\* The switch testing the prefix without regard to letter case.
ClassifyAnyCase(pre, address) ==
    IF IsHexAddress(address) THEN "hex"
    ELSE IF HasPrefix(ToLower(address), pre) THEN "bech32"
    ELSE "default"

\* The switch of ConvertAddress: the first case that holds.
Classify(pre, address) ==
    IF IsHexAddress(address) THEN "hex"
    ELSE IF HasPrefix(address, pre) THEN "bech32"
    ELSE "default"

\* The hex case decoding address with Hex2Bytes in place of HexToAddress.
HexCaseBytesRaw(address) == Hex2Bytes(address)

\* addrBytes := common.HexToAddress(address).Bytes()
HexCaseBytes(address) == HexToAddress(address)

\* convertedAddr := sdk.AccAddress(addrBytes); convertedAddr.String()
HexCaseResult(pre, addrBytes, cache) == AccAddressString(pre, addrBytes, cache)

\* The bech32 case taking the 5-bit groups of bech32.Decode for the bytes,
\* without converting them to 8-bit.
Bech32CaseBytesUnconverted(pre, address) ==
    The({[bz |-> d.data, err |-> d.err] : d \in {Decode(address, DecodeLimit)}})

\* addrBytes, _ := sdk.AccAddressFromBech32(address): the bytes, and the
\* error that the blank identifier drops.
Bech32CaseBytes(pre, address) == AccAddressFromBech32(pre, address)

\* The bech32 case encoding the decoded bytes as they are, neither cropped
\* nor padded to 20.
Bech32CaseResultUncropped(addrBytes) == AddressString(addrBytes)

\* The bech32 case returning the lowercase digits, without the checksum case.
Bech32CaseResultLower(addrBytes) == hex(BytesToAddress(addrBytes))

\* convertedAddr := common.BytesToAddress(addrBytes); convertedAddr.String()
Bech32CaseResult(addrBytes) == AddressString(BytesToAddress(addrBytes))

\* ConvertAddress run in one piece with the address cache as it finds it:
\* the returned string and error, and the cache it leaves behind.
ConvertAddress(pre, address, cache) ==
    The({IF branch = "hex"
         THEN The({[result |-> out.str, err |-> "nil", cache |-> out.cache] :
                   out \in {HexCaseResult(pre, HexCaseBytes(address), cache)}})
         ELSE IF branch = "bech32"
         THEN [result |-> Bech32CaseResult(Bech32CaseBytes(pre, address).bz),
               err |-> "nil", cache |-> cache]
         ELSE [result |-> <<>>, err |-> ErrInvalidFormat, cache |-> cache] :
         branch \in {Classify(pre, address)}})

(***************************************************************************)
(* The inputs of the model.                                                *)
(***************************************************************************)
\* 0x1234567890123456789012345678901234567890 (digits only),
\* 0x5aaeb6053f3e94c9b9a09f33669435e7ef1beaed and
\* 0xfb6916095ca1df60bb79ce92ce3ea74c37c5d359 (digits and letters).
KnownPayloads ==
    << <<18, 52, 86, 120, 144, 18, 52, 86, 120, 144, 18, 52, 86, 120, 144, 18, 52,
         86, 120, 144>>,
       <<90, 174, 182, 5, 63, 62, 148, 201, 185, 160, 159, 51, 102, 148, 53, 231,
         239, 27, 234, 237>>,
       <<251, 105, 22, 9, 92, 161, 223, 96, 187, 121, 206, 146, 206, 62, 167, 76,
         55, 197, 211, 89>> >>

Payload(k) ==
    IF k <= Len(KnownPayloads) THEN KnownPayloads[k]
    ELSE Eager([i \in 1..AddressLength |-> ((k * 37) + (i * i * 11) + (i * k)) % 256])

Payloads == {Payload(k) : k \in 1..NumPayloads}

\* s with its last character replaced by another character of the charset.
Corrupt(s) == [s EXCEPT ![Len(s)] = IF @ = 113 THEN 112 ELSE 113]

\* The hex forms of payload p: lowercase, uppercase digits, "0X", bare
\* digits, EIP-55, one digit short, one character that is no digit.
HexInputs(p) ==
    UNION {{lower, <<48, 120>> \o ToUpper(digits), <<48, 88>> \o digits, digits,
            AddressString(p), SubSeq(lower, 1, Len(lower) - 1),
            [lower EXCEPT ![Len(lower)] = 103]} :
           <<lower, digits>> \in {<<l, SubSeq(l, 3, Len(l))>> : l \in {hex(p)}}}

\* The bech32 forms of payload p under prefix pre: valid, bad checksum,
\* uppercase, another network ("cosmos"), a longer human-readable part
\* (pre followed by "valoper"), a 32-byte and a 4-byte payload.
Bech32Inputs(pre, p) ==
    UNION {{b, Corrupt(b), ToUpper(b)} : b \in {ConvertAndEncode(pre, p)}}
    \cup {ConvertAndEncode(h, q) :
          <<h, q>> \in {<<<<99, 111, 115, 109, 111, 115>>, p>>,
                        <<pre \o <<118, 97, 108, 111, 112, 101, 114>>, p>>,
                        <<pre, p \o SubSeq(p, 1, 12)>>,
                        <<pre, SubSeq(p, 1, 4)>>}}

\* "", "not-an-address", the bare prefix, the prefix followed by "1".
OtherInputs(pre) ==
    {<<>>, <<110, 111, 116, 45, 97, 110, 45, 97, 100, 100, 114, 101, 115, 115>>,
     pre, pre \o <<49>>}

Inputs(pre) ==
    UNION {HexInputs(p) \cup Bech32Inputs(pre, p) : p \in Payloads}
    \cup OtherInputs(pre)

\* The inputs of the concurrent callers.
ConcInputs(pre) ==
    UNION {{hex(Payload(1)), hex(Payload(2)), b, Corrupt(b),
            <<110, 111, 116, 45, 97, 110, 45, 97, 100, 100, 114, 101, 115, 115>>} :
           b \in {ConvertAndEncode(pre, Payload(2))}}

(***************************************************************************)
(* The state.  prefix is the configured account prefix, read only.         *)
(* accAddrCache is the address cache of the sdk, one for the process,      *)
(* which AccAddress.String() reads and writes holding accAddrMu.  Every    *)
(* caller runs ConvertAddress step by step on locals of its own: address   *)
(* (the argument), addrBytes, dropped (the error the bech32 case assigns   *)
(* to the blank identifier) and the returned result and err.  first is the *)
(* argument of the first call of the caller's chain and depth the number   *)
(* of calls made in it.                                                    *)
(***************************************************************************)
VARIABLES prefix, calls, accAddrCache

vars == <<prefix, calls, accAddrCache>>

Callers == 1..NumCallers

Idle ==
    [pc |-> "idle", first |-> <<>>, address |-> <<>>, branch |-> "none",
     addrBytes |-> <<>>, dropped |-> "nil", result |-> <<>>, err |-> "nil",
     depth |-> 0]

Init ==
    /\ prefix \in Prefixes
    /\ calls = [c \in {1} |-> Idle]
    /\ accAddrCache = <<>>

InitConc ==
    /\ prefix = Bech32PrefixAccAddr
    /\ calls = [c \in Callers |-> Idle]
    /\ accAddrCache = <<>>

\* The RPC server calls ConvertAddress(a).
Call(c, a) ==
    /\ calls[c].pc = "idle"
    /\ calls' = [calls EXCEPT ![c] =
           [Idle EXCEPT !.pc = "switch", !.first = a, !.address = a, !.depth = 1]]
    /\ UNCHANGED <<prefix, accAddrCache>>

\* case common.IsHexAddress(address)
CaseHex(c) ==
    /\ calls[c].pc = "switch"
    /\ Classify(prefix, calls[c].address) = "hex"
    /\ calls' = [calls EXCEPT ![c].pc = "hexReturn", ![c].branch = "hex",
                              ![c].addrBytes = HexCaseBytes(calls[c].address)]
    /\ UNCHANGED <<prefix, accAddrCache>>

\* convertedAddr.String(), one step under accAddrMu, and the return.
ReturnHex(c) ==
    /\ calls[c].pc = "hexReturn"
    /\ \E out \in {HexCaseResult(prefix, calls[c].addrBytes, accAddrCache)} :
           /\ calls' = [calls EXCEPT ![c].pc = "done", ![c].result = out.str,
                                     ![c].err = "nil"]
           /\ accAddrCache' = out.cache
    /\ UNCHANGED prefix

\* case strings.HasPrefix(address, types.Bech32PrefixAccAddr)
CaseBech32(c) ==
    /\ calls[c].pc = "switch"
    /\ Classify(prefix, calls[c].address) = "bech32"
    /\ \E got \in {Bech32CaseBytes(prefix, calls[c].address)} :
           calls' = [calls EXCEPT ![c].pc = "bech32Return", ![c].branch = "bech32",
                                  ![c].addrBytes = got.bz, ![c].dropped = got.err]
    /\ UNCHANGED <<prefix, accAddrCache>>

ReturnBech32(c) ==
    /\ calls[c].pc = "bech32Return"
    /\ calls' = [calls EXCEPT ![c].pc = "done",
                              ![c].result = Bech32CaseResult(calls[c].addrBytes),
                              ![c].err = "nil"]
    /\ UNCHANGED <<prefix, accAddrCache>>

\* The default case returning the input next to the error.
CaseDefaultEcho(c) ==
    /\ calls[c].pc = "switch"
    /\ Classify(prefix, calls[c].address) = "default"
    /\ calls' = [calls EXCEPT ![c].pc = "done", ![c].branch = "default",
                              ![c].result = calls[c].address,
                              ![c].err = ErrInvalidFormat]
    /\ UNCHANGED <<prefix, accAddrCache>>

\* default
CaseDefault(c) ==
    /\ calls[c].pc = "switch"
    /\ Classify(prefix, calls[c].address) = "default"
    /\ calls' = [calls EXCEPT ![c].pc = "done", ![c].branch = "default",
                              ![c].result = <<>>, ![c].err = ErrInvalidFormat]
    /\ UNCHANGED <<prefix, accAddrCache>>

\* The caller passes the address it got to ConvertAddress again.
Reconvert(c) ==
    /\ calls[c].pc = "done"
    /\ calls[c].err = "nil"
    /\ calls[c].depth < MaxChain
    /\ calls' = [calls EXCEPT ![c] =
           [Idle EXCEPT !.pc = "switch", !.first = calls[c].first,
                        !.address = calls[c].result, !.depth = calls[c].depth + 1]]
    /\ UNCHANGED <<prefix, accAddrCache>>

\* A call with any input of the model.
CallInput(c) == \E a \in Inputs(prefix) : Call(c, a)

\* A call with any input of the concurrent callers.
CallConcInput(c) == \E a \in ConcInputs(prefix) : Call(c, a)

Next ==
    \/ CallInput(1)
    \/ CaseHex(1)
    \/ ReturnHex(1)
    \/ CaseBech32(1)
    \/ ReturnBech32(1)
    \/ CaseDefault(1)
    \/ Reconvert(1)

NextConc ==
    \/ \E c \in Callers : CallConcInput(c)
    \/ \E c \in Callers : CaseHex(c)
    \/ \E c \in Callers : ReturnHex(c)
    \/ \E c \in Callers : CaseBech32(c)
    \/ \E c \in Callers : ReturnBech32(c)
    \/ \E c \in Callers : CaseDefault(c)

Spec == Init /\ [][Next]_vars

SpecConc == InitConc /\ [][NextConc]_vars

Done(c) == calls[c].pc = "done"

(***************************************************************************)
(* Vocabulary of the properties, stated apart from the code's operators.   *)
(***************************************************************************)
\* s is exactly 40 hex digits, in any letter case.
HexDigits40(s) == Len(s) = 40 /\ \A i \in 1..40 : isHexCharacter(s[i])

\* s is "0x" followed by 40 hex digits.
StrictHexForm(s) ==
    Len(s) = 42 /\ s[1] = 48 /\ s[2] = 120 /\ HexDigits40(SubSeq(s, 3, 42))

\* s is 40 hex digits, bare or preceded by "0x" or "0X".
AcceptedHexForm(s) ==
    \/ HexDigits40(s)
    \/ Len(s) = 42 /\ s[1] = 48 /\ s[2] \in {120, 88} /\ HexDigits40(SubSeq(s, 3, 42))

\* The value of hex digit c, in either letter case.
DigitValue(c) == IF c <= 57 THEN c - 48 ELSE IF c <= 70 THEN c - 55 ELSE c - 87

\* The 20 bytes that the last 40 characters of s, all hex digits, stand for.
HexPayload(s) ==
    [i \in 1..20 |-> (16 * DigitValue(s[Len(s) - 40 + (2 * i) - 1]))
                     + DigitValue(s[Len(s) - 40 + (2 * i)])]

\* b right-aligned in 20 bytes: its last 20 bytes, or zeros before it.
Right20(b) == [i \in 1..20 |-> IF Len(b) - 20 + i >= 1 THEN b[Len(b) - 20 + i] ELSE 0]

\* s is "0x" followed by 40 lowercase hex digits.
LowerHexForm(s) == StrictHexForm(s) /\ s = ToLower(s)

\* s is "0x" followed by 40 hex digits in EIP-55 letter case.
ChecksumHexForm(s) ==
    /\ StrictHexForm(s)
    /\ \E hash \in {Keccak256(SubSeq(ToLower(s), 3, 42))} :
           \A j \in 3..42 :
               s[j] > 57 => (s[j] <= 70 <=> hashNibble(hash, j) > 7)

\* address is a bech32 address under prefix pre that decodes without error.
DecodesUnder(pre, address) ==
    /\ ~AcceptedHexForm(address)
    /\ HasPrefix(address, pre)
    /\ AccAddressFromBech32(pre, address).err = "nil"

\* address has the prefix and fails to decode.
FailsDecoding(pre, address) ==
    /\ ~AcceptedHexForm(address)
    /\ HasPrefix(address, pre)
    /\ AccAddressFromBech32(pre, address).err # "nil"

(***************************************************************************)
(* C1  Decode-failure propagation.                                         *)
(***************************************************************************)
\* C1: a call whose input is no hex address, has the account prefix and
\* fails bech32 decoding returns the decode error and no address.
C1_DecodeErrorPropagated ==
    \A c \in DOMAIN calls :
        Done(c) /\ FailsDecoding(prefix, calls[c].address)
            => /\ calls[c].err = AccAddressFromBech32(prefix, calls[c].address).err
               /\ calls[c].result = <<>>

(***************************************************************************)
(* C2  Double conversion.                                                  *)
(***************************************************************************)
\* x is the text form that ConvertAddress itself produces for an address:
\* EIP-55 hex, or the bech32 form of a 20-byte payload under the prefix.
CanonicalForm(pre, x) ==
    \/ ChecksumHexForm(x)
    \/ DecodesUnder(pre, x) /\ Len(AccAddressFromBech32(pre, x).bz) = 20

\* x is a valid address: an accepted hex address, or a bech32 address that
\* decodes under the prefix.
ValidAddress(pre, x) == AcceptedHexForm(x) \/ DecodesUnder(pre, x)

\* C2 as claimed: the second conversion of every valid address x succeeds
\* and returns exactly x.
C2_DoubleConversionIdentity ==
    \A c \in DOMAIN calls :
        Done(c) /\ calls[c].depth = 2 /\ ValidAddress(prefix, calls[c].first)
            => calls[c].err = "nil" /\ calls[c].result = calls[c].first

\* C2 amended: the second conversion returns x for every x in canonical
\* form (EIP-55 hex, or bech32 of a 20-byte payload); for every other
\* accepted hex string it returns the EIP-55 form of the same 20 bytes.
C2_DoubleConversionCanonical ==
    \A c \in DOMAIN calls :
        Done(c) /\ calls[c].depth = 2
            => /\ CanonicalForm(prefix, calls[c].first)
                   => calls[c].err = "nil" /\ calls[c].result = calls[c].first
               /\ AcceptedHexForm(calls[c].first)
                   => /\ calls[c].err = "nil"
                      /\ ChecksumHexForm(calls[c].result)
                      /\ HexPayload(calls[c].result) = HexPayload(calls[c].first)

\* C2 witness: an EIP-55 address with upper-case letters came back from the
\* second conversion.
C2_Witness ==
    \E c \in DOMAIN calls :
        /\ Done(c) /\ calls[c].depth = 2
        /\ StrictHexForm(calls[c].first)
        /\ calls[c].first # ToLower(calls[c].first)
        /\ calls[c].result = calls[c].first

(***************************************************************************)
(* C3  Payload round trip.                                                 *)
(***************************************************************************)
\* C3: the bech32 string returned for a hex address decodes to the 20 bytes
\* of the hex digits, and the hex string returned for a bech32 address of a
\* 20-byte payload decodes to that payload.
C3_PayloadRoundTrip ==
    \A c \in DOMAIN calls :
        Done(c)
            => /\ AcceptedHexForm(calls[c].address)
                   => /\ calls[c].err = "nil"
                      /\ GetFromBech32(calls[c].result, prefix) =
                             [bz |-> HexPayload(calls[c].address), err |-> "nil"]
               /\ (DecodesUnder(prefix, calls[c].address)
                   /\ Len(AccAddressFromBech32(prefix, calls[c].address).bz) = 20)
                   => /\ calls[c].err = "nil"
                      /\ AcceptedHexForm(calls[c].result)
                      /\ HexPayload(calls[c].result) =
                             AccAddressFromBech32(prefix, calls[c].address).bz

\* C3 witness: a bech32 address of a 20-byte payload with letter digits was
\* converted.
C3_Witness ==
    \E c \in DOMAIN calls :
        /\ Done(c) /\ calls[c].branch = "bech32" /\ calls[c].dropped = "nil"
        /\ Len(calls[c].addrBytes) = 20
        /\ calls[c].result # ToLower(calls[c].result)
        /\ HexPayload(calls[c].result) = calls[c].addrBytes

(***************************************************************************)
(* C4  Rejection.                                                          *)
(***************************************************************************)
\* C4 as claimed: an input that is not "0x" followed by 40 hex digits and
\* does not start with the prefix fails with InvalidFormat and no result.
C4_RejectionStrictHex ==
    \A c \in DOMAIN calls :
        (/\ Done(c)
         /\ ~StrictHexForm(calls[c].address)
         /\ ~HasPrefix(calls[c].address, prefix))
            => calls[c].err = ErrInvalidFormat /\ calls[c].result = <<>>

\* C4 amended: an input that is not 40 hex digits, bare or preceded by "0x"
\* or "0X", and does not start with the prefix fails with InvalidFormat and
\* no result.
C4_Rejection ==
    \A c \in DOMAIN calls :
        (/\ Done(c)
         /\ ~AcceptedHexForm(calls[c].address)
         /\ ~HasPrefix(calls[c].address, prefix))
            => calls[c].err = ErrInvalidFormat /\ calls[c].result = <<>>

\* C4 witness: the empty string was rejected.
C4_Witness ==
    \E c \in DOMAIN calls :
        /\ Done(c) /\ calls[c].address = <<>>
        /\ ~HasPrefix(calls[c].address, prefix)
        /\ calls[c].err = ErrInvalidFormat

(***************************************************************************)
(* C5  Bech32 to hex.                                                      *)
(***************************************************************************)
\* C5 as claimed: a bech32 input that decodes returns, with no error, "0x"
\* followed by 40 lowercase hex digits that encode the decoded payload.
C5_Bech32ToLowercaseHex ==
    \A c \in DOMAIN calls :
        Done(c) /\ DecodesUnder(prefix, calls[c].address)
            => /\ calls[c].err = "nil"
               /\ LowerHexForm(calls[c].result)
               /\ HexPayload(calls[c].result) =
                      AccAddressFromBech32(prefix, calls[c].address).bz

\* C5 amended: a bech32 input that decodes returns, with no error, "0x"
\* followed by 40 hex digits in EIP-55 letter case that encode the decoded
\* payload right-aligned in 20 bytes.
C5_Bech32ToChecksumHex ==
    \A c \in DOMAIN calls :
        Done(c) /\ DecodesUnder(prefix, calls[c].address)
            => /\ calls[c].err = "nil"
               /\ ChecksumHexForm(calls[c].result)
               /\ HexPayload(calls[c].result) =
                      Right20(AccAddressFromBech32(prefix, calls[c].address).bz)

\* C5 witness: a bech32 address was converted to a hex string that has
\* upper-case digits.
C5_Witness ==
    \E c \in DOMAIN calls :
        /\ Done(c) /\ DecodesUnder(prefix, calls[c].address)
        /\ calls[c].err = "nil"
        /\ \E j \in 3..42 : calls[c].result[j] >= 65 /\ calls[c].result[j] <= 70

(***************************************************************************)
(* C6  Hex to bech32.                                                      *)
(***************************************************************************)
\* C6: a hex input returns, with no error, the bech32 encoding of its 20
\* bytes under the account prefix, whatever the letter case of its digits.
C6_HexToBech32 ==
    \A c \in DOMAIN calls :
        Done(c) /\ AcceptedHexForm(calls[c].address)
            => /\ calls[c].err = "nil"
               /\ calls[c].result =
                      ConvertAndEncode(prefix, HexPayload(calls[c].address))
               /\ HasPrefix(calls[c].result, prefix \o <<49>>)
               /\ calls[c].result = ConvertAddress(prefix, ToLower(calls[c].address), <<>>).result
               /\ calls[c].result = ConvertAddress(prefix, ToUpper(calls[c].address), <<>>).result

\* C6 witness: a hex address with upper-case digits was converted.
C6_Witness ==
    \E c \in DOMAIN calls :
        /\ Done(c) /\ calls[c].branch = "hex"
        /\ calls[c].address # ToLower(calls[c].address)
        /\ calls[c].err = "nil" /\ HasPrefix(calls[c].result, prefix)

(***************************************************************************)
(* C7  Classification precedence.                                          *)
(***************************************************************************)
\* C7: a call whose input is a hex address takes the hex case, never the
\* bech32 case, also when the input starts with the account prefix.
C7_HexPrecedence ==
    \A c \in DOMAIN calls :
        calls[c].pc \notin {"idle", "switch"} /\ AcceptedHexForm(calls[c].address)
            => calls[c].branch = "hex"

\* C7 witness: under the prefix "0x" a hex address that starts with the
\* prefix went through the hex case.
C7_Witness ==
    \E c \in DOMAIN calls :
        /\ Done(c) /\ calls[c].branch = "hex"
        /\ AcceptedHexForm(calls[c].address)
        /\ HasPrefix(calls[c].address, prefix)

(***************************************************************************)
(* C8  Atomic outcome.                                                     *)
(***************************************************************************)
\* C8: a call returns either a non-empty string and no error, or an error
\* and the empty string.
C8_AtomicOutcome ==
    \A c \in DOMAIN calls :
        Done(c)
            => \/ calls[c].result # <<>> /\ calls[c].err = "nil"
               \/ calls[c].result = <<>> /\ calls[c].err # "nil"

\* C8 witness: one call returned an error and the empty string.
C8_Witness ==
    \E c \in DOMAIN calls :
        Done(c) /\ calls[c].result = <<>> /\ calls[c].err # "nil"

(***************************************************************************)
(* C9  Concurrent callers.                                                 *)
(***************************************************************************)
\* What ConvertAddress returns for address when it runs alone in a process
\* that has converted nothing yet.
Alone(pre, address) ==
    The({[result |-> r.result, err |-> r.err] :
         r \in {ConvertAddress(pre, address, <<>>)}})

\* Every call that has returned returned what it returns alone, and calls
\* with the same input returned the same.
ResultsAsAlone ==
    \A c \in DOMAIN calls :
        Done(c)
            => /\ [result |-> calls[c].result, err |-> calls[c].err] =
                      Alone(prefix, calls[c].address)
               /\ \A d \in DOMAIN calls :
                      Done(d) /\ calls[d].address = calls[c].address
                          => /\ calls[d].result = calls[c].result
                             /\ calls[d].err = calls[c].err

\* C9 as claimed: no step of any call changes shared state (the prefix, the
\* address cache), and under any interleaving every call returns what it
\* returns alone, the same for the same input.
C9_NoSharedStateChanged ==
    [][/\ prefix' = prefix
       /\ accAddrCache' = accAddrCache
       /\ ResultsAsAlone']_vars

\* C9 amended: the prefix stays as configured; the one shared state that
\* changes is the address cache of the sdk, where every entry is, once, the
\* address of a hex-case call that has returned with its bech32 encoding
\* under the prefix, and where, until the cache is full, every such call has
\* its entry; under any interleaving every call returns what it returns
\* alone, the same for the same input.
C9_ConcurrentEqualsAlone ==
    /\ prefix = Bech32PrefixAccAddr
    /\ \A i \in 1..Len(accAddrCache) :
           /\ accAddrCache[i].value = ConvertAndEncode(prefix, accAddrCache[i].key)
           /\ \A j \in 1..Len(accAddrCache) :
                  accAddrCache[j].key = accAddrCache[i].key => j = i
           /\ \E c \in DOMAIN calls :
                  /\ Done(c) /\ calls[c].branch = "hex"
                  /\ calls[c].addrBytes = accAddrCache[i].key
    /\ \A c \in DOMAIN calls :
           Done(c) /\ calls[c].branch = "hex"
               => \/ cacheIndex(accAddrCache, calls[c].addrBytes) # 0
                  \/ Len(accAddrCache) = accAddrCacheSize
    /\ ResultsAsAlone

\* C9 witness: two callers converted the same hex address, the second of
\* them taking the string from the cache.
C9_Witness ==
    \E c, d \in DOMAIN calls :
        /\ c # d /\ Done(c) /\ Done(d)
        /\ calls[c].branch = "hex" /\ calls[d].branch = "hex"
        /\ calls[c].addrBytes = calls[d].addrBytes
        /\ Len(accAddrCache) = 1
        /\ calls[c].result = accAddrCache[1].value
        /\ calls[d].result = accAddrCache[1].value

(***************************************************************************)
(* C10  Output shape.                                                      *)
(***************************************************************************)
\* C10: a call that returns no error went through the hex case and returns
\* a bech32 string under the prefix with a 20-byte payload, or through the
\* bech32 case and returns "0x" followed by 40 hex digits, whatever was
\* decoded.
C10_OutputShape ==
    \A c \in DOMAIN calls :
        Done(c) /\ calls[c].err = "nil"
            => \/ /\ calls[c].branch = "hex"
                  /\ HasPrefix(calls[c].result, prefix \o <<49>>)
                  /\ GetFromBech32(calls[c].result, prefix).err = "nil"
                  /\ Len(GetFromBech32(calls[c].result, prefix).bz) = 20
               \/ /\ calls[c].branch = "bech32"
                  /\ StrictHexForm(calls[c].result)

\* C10 witness: the bech32 case decoded more than 20 bytes and returned.
C10_Witness ==
    \E c \in DOMAIN calls :
        /\ Done(c) /\ calls[c].branch = "bech32"
        /\ Len(calls[c].addrBytes) > 20
        /\ calls[c].err = "nil"

=============================================================================
